---- MODULE Spec2Model ----
(***************************************************************************)
(* Customer image storage of one tenant partition (database fi_<company>): *)
(* the customer_images and customers collections, the "images" GridFS      *)
(* bucket, and the resumable upload sessions and chunks.  Every await of   *)
(* the service and repository code is one atomic step of a request; the    *)
(* requests of the concurrent callers interleave freely.                   *)
(***************************************************************************)
EXTENDS Integers, Sequences, FiniteSets, TLC

VARIABLES customers, images, fsFiles, fsChunks, sessions, chunks,
          procs, last, ids, faults, origin, submitted, labels,
          dbCache, gridFSCache, store, revealed, now,
          client, handleSeq, indexRuns, handed, drops,
          sales, saleCalls, logSeq,
          companies, users, invites, inviteCalls

vars == <<customers, images, fsFiles, fsChunks, sessions, chunks,
          procs, last, ids, faults, origin, submitted, labels,
          dbCache, gridFSCache, store, revealed, now,
          client, handleSeq, indexRuns, handed, drops,
          sales, saleCalls, logSeq,
          companies, users, invites, inviteCalls>>

\* The process-wide handle caches and the partitions of all companies.
tenantVars == <<dbCache, gridFSCache, store, revealed,
                client, handleSeq, indexRuns, handed, drops>>

\* The sales collection of the partition and the payment-log calls on it.
saleVars == <<sales, saleCalls, logSeq>>

\* The core database (companies, users, company_invites) and the calls that
\* answer an invite.
memberVars == <<companies, users, invites, inviteCalls>>

-----------------------------------------------------------------------------
(* Bounds of the model.                                                    *)

MaxFiles == 2
MaxSessions == 1
MaxChunkDocs == 2
MaxFaults == 1
MaxCalls == 4
MaxLabels == 1
MaxHandles == 3
MaxClients == 2
MaxLogs == 3
GridfsChunkSize == 1

\* The concurrent callers.
Procs == {1, 2}

\* The file bodies callers upload: every position holds a different byte, so
\* any loss, repetition or reordering of bytes changes the value.
Buffers == {<<1>>, <<1, 2>>}

\* The chunk bodies callers send (the route rejects an empty body).
ChunkPayloads == {<<1>>, <<2>>}

\* The chunk indices callers send.
Indices == {0, 1}

\* The index query values callers send, as the characters of the string.
IndexParams == {<<"0">>, <<"1">>, <<"2">>, <<"-", "1">>, <<"1", "x">>, <<"x">>}

\* The totalSize values callers declare (the route accepts positive integers).
TotalSizes == {1, 2}

\* The totalSize values a client may send, the invalid ones included.
TotalSizeInputs == {-1, 0} \cup TotalSizes

\* Milliseconds the clock may advance between two readings of one call.
ClockTicks == {0, 1}

\* 24 * 60 * 60 * 1000
DayMs == 24 * 60 * 60 * 1000

\* The customers that exist.
CustomerNumbers == {1}

-----------------------------------------------------------------------------
(* Identifiers.  A document _id is an ObjectId; the ids that travel        *)
(* through the API are hex strings.  The two never compare equal.          *)

Oid(n) == <<"oid", n>>

Hex(n) == <<"hex", n>>

\* new ObjectId(hex) / ObjectId.createFromHexString(hex)
ObjectIdFromHex(h) == Oid(h[2])

\* customerId route parameters callers use: the existing customers and one
\* id that names no customer.
CustomerParams == {Hex(c) : c \in CustomerNumbers \cup {2}}

-----------------------------------------------------------------------------
(* Pure helpers.                                                           *)

RECURSIVE ConcatAll(_)
\* Buffer.concat(list)
ConcatAll(bufs) ==
  IF bufs = <<>> THEN <<>> ELSE Head(bufs) \o ConcatAll(Tail(bufs))

RECURSIVE SplitChunks(_, _)
\* The GridFS upload stream cuts the piped bytes into chunk documents of
\* chunkSizeBytes each (the last one shorter).
SplitChunks(data, n) ==
  IF Len(data) = 0 THEN <<>>
  ELSE IF Len(data) <= n THEN <<data>>
  ELSE <<SubSeq(data, 1, n)>> \o SplitChunks(SubSeq(data, n + 1, Len(data)), n)

\* f with key k set to v (k added when absent).
Put(f, k, v) == [x \in DOMAIN f \cup {k} |-> IF x = k THEN v ELSE f[x]]

\* f without key k.
Drop(f, k) == [x \in DOMAIN f \ {k} |-> f[x]]

-----------------------------------------------------------------------------
(* Collections.                                                            *)

NoImage == [_id |-> Oid(0), customerId |-> Hex(0), size |-> 0, fileId |-> Oid(0),
            labels |-> {}]

\* What a request keeps of the session it read (the fields it uses later).
NoSession == [_id |-> Oid(0), customerId |-> Hex(0), totalSize |-> 0]

SessionRead(s) == [_id |-> s._id, customerId |-> s.customerId, totalSize |-> s.totalSize]

\* collection.findOne({ _id: ObjectId.createFromHexString(id) })
FindImage(id) == {i \in images : i._id = ObjectIdFromHex(id)}

\* customersCollection.updateOne({ _id: customerId }, { $inc: { imageCount: d } }):
\* the filter value is the customerId string exactly as the caller passed it.
IncImageCount(coll, customerId, d) ==
  [c \in DOMAIN coll |-> IF c = customerId THEN coll[c] + d ELSE coll[c]]

\* Seeded fault for C7: the download keeps the first chunk only.
DownloadFirstChunk(fileId) == Head(fsChunks[fileId])

\* bucket.openDownloadStream(fileId) collected with Buffer.concat
DownloadFromGridFS(fileId) == ConcatAll(fsChunks[fileId])

\* The state of a caller between two requests.
FreshProc ==
  [pc |-> "idle", op |-> "none", res |-> "none",
   customerId |-> Hex(0), imageId |-> Hex(0), uploadId |-> Hex(0),
   index |-> 0, data |-> <<>>, batch |-> <<>>, fileIds |-> <<>>, labels |-> {},
   image |-> NoImage, session |-> NoSession, buffer |-> <<>>,
   complete |-> FALSE, gap |-> FALSE, expected |-> <<>>,
   txFailed |-> FALSE, cleanupFailed |-> FALSE]

\* The ids after a step of p that leaves them at next: a step that starts a
\* request (p is idle) also counts the request.
Counted(p, next) == [next EXCEPT !.call = IF procs[p].pc = "idle" THEN @ + 1 ELSE @]

\* The sales stored in the partition, by their id field.
SaleIds == {1}

\* The saleId values callers send: the stored sale and an id of no sale.
SaleParams == {1, 2}

\* Money is counted in thousandths of the currency unit.
\* The totalAmount of the stored sale: 3.00
SaleTotal == 3000

\* The amounts of the payments callers add: 1.00 and 2.00
Amounts == {1000, 2000}

\* Math.round(x * 100) / 100: to the nearest hundredth, halves upwards.
Round100(x) == ((x + 5) \div 10) * 10

\* newTotalPaid >= sale.totalAmount ? "completed" : "pending"
SaleStatusOf(totalPaid, totalAmount) ==
  IF totalPaid >= totalAmount THEN "completed" ELSE "pending"

\* The sale createSale stores when it is given no logs.
NewSale(totalAmount) ==
  [totalAmount |-> totalAmount, totalPaidAmount |-> Round100(0),
   status |-> SaleStatusOf(0, totalAmount), logs |-> <<>>]

\* No payment-log call is in progress.
NoSaleCall == [pc |-> "idle", saleId |-> 0, log |-> [id |-> 0, amount |-> 0],
               totalPaid |-> 0, status |-> "none", res |-> "none"]

\* The companies of the core database.
CoreCompanies == {1, 2}

\* No company: the companyId of a user who belongs to none.
NoCompany == <<>>

\* The creator of company c.
Creator(c) == 10 + c

\* The company createCompany stores: _id is the hex string of a new ObjectId,
\* and the creator is its only user.
NewCompany(c) == [_id |-> Hex(c), userIds |-> {Creator(c)}]

\* The users who answer invites; neither belongs to a company.
Invitees == {1, 2}

\* All users: the invitees and the creators of the companies.
UserIds == Invitees \cup {Creator(c) : c \in CoreCompanies}

\* A user document: the invitees have no company, a creator has their own.
NewUser(u) ==
  [phoneNumber |-> u,
   companyId |-> IF u \in Invitees THEN NoCompany ELSE Hex(u - 10)]

\* The invites inviteUser stored; both are for the phone number of user 1,
\* one from each company.
InviteIds == {1, 2}

\* The inviteId values callers send: the stored invites and an id of none.
InviteParams == InviteIds \cup {3}

\* invitedUserId: invitedUser?._id || "" -- invite 1 was made when user 1
\* was registered, invite 2 before (0 stands for the empty string).
NewInvite(i) ==
  [companyId |-> Hex(i), invitedUserId |-> IF i = 1 THEN 1 ELSE 0,
   invitedPhoneNumber |-> 1, status |-> "pending"]

\* No respondToInvite call is in progress.
NoInviteCall == [pc |-> "idle", userId |-> 0, inviteId |-> 0, accept |-> FALSE,
                 companyId |-> NoCompany, phone |-> 0, res |-> "none"]

\* No handle.
NoHandle == [name |-> <<>>, client |-> 0, id |-> 0]

\* What a call on the connection or the handle caches gave back.
Handed(op, companyId, res, handle) ==
  [op |-> op, company |-> companyId, res |-> res, handle |-> handle]

\* The model stops taking requests after MaxCalls of them.
CallsLeft == ids.call < MaxCalls

\* A storage call may fail (network or server error) while faults remain.
CanFail == faults < MaxFaults

\* The request of p goes on as pr.
Goto(p, pr) ==
  /\ procs' = [procs EXCEPT ![p] = pr]
  /\ UNCHANGED last

\* What is remembered of the request that ended most recently: its result, and
\* (for the properties) which record and object it was about.
Outcome(pr, r) ==
  [op |-> pr.op, res |-> r, customerId |-> pr.customerId,
   imageId |-> pr.imageId, uploadId |-> pr.uploadId,
   fileIds |-> pr.fileIds, image |-> pr.image, buffer |-> pr.buffer,
   txFailed |-> pr.txFailed, cleanupFailed |-> pr.cleanupFailed]

\* The request of p ends with result r.
Return(p, pr, r) ==
  /\ procs' = [procs EXCEPT ![p] = FreshProc]
  /\ last' = Outcome(pr, r)

Init ==
  /\ customers = [c \in {Oid(n) : n \in CustomerNumbers} |-> 0]
  /\ images = {}
  /\ fsFiles = {}
  /\ fsChunks = [f \in {} |-> <<>>]
  /\ sessions = {}
  /\ chunks = {}
  /\ procs = [p \in Procs |-> FreshProc]
  /\ last = Outcome(FreshProc, "none")
  /\ ids = [file |-> 0, image |-> 0, session |-> 0, chunk |-> 0, call |-> 0,
            label |-> 0]
  /\ faults = 0
  /\ origin = [i \in {} |-> 0]
  /\ submitted = [k \in {} |-> <<>>]
  /\ labels = {}
  /\ dbCache = [n \in {} |-> NoHandle]
  /\ gridFSCache = [k \in {} |-> NoHandle]
  /\ client = [gen |-> 0, open |-> FALSE]
  /\ handleSeq = 0
  /\ indexRuns = {}
  /\ handed = Handed("none", <<>>, "none", NoHandle)
  /\ drops = {}
  /\ store = {}
  /\ revealed = [company |-> <<>>, items |-> {}]
  /\ now = 0
  /\ sales = [s \in SaleIds |-> NewSale(SaleTotal)]
  /\ saleCalls = [p \in Procs |-> NoSaleCall]
  /\ logSeq = 0
  /\ companies = [c \in CoreCompanies |-> NewCompany(c)]
  /\ users = [u \in UserIds |-> NewUser(u)]
  /\ invites = [i \in InviteIds |-> NewInvite(i)]
  /\ inviteCalls = [p \in Procs |-> NoInviteCall]

\* Objects that requests already under way will still write.
PendingFiles(pr) ==
  CASE pr.pc \in {"f_chunks", "c_upload"} -> 1
    [] pr.pc = "m_upload" -> Len(pr.batch) - Len(pr.fileIds)
    [] OTHER -> 0

RECURSIVE SumPendingFiles(_)
SumPendingFiles(S) ==
  IF S = {} THEN 0
  ELSE LET q == CHOOSE x \in S : TRUE
       IN PendingFiles(procs[q]) + SumPendingFiles(S \ {q})

\* The model stops taking requests that write objects once MaxFiles are spoken for.
FilesLeft == MaxFiles - ids.file - SumPendingFiles(Procs)

-----------------------------------------------------------------------------
(* CustomerImageRepository.uploadToGridFS, as called first by              *)
(* createWithTransaction: pr is the caller's state on entry.               *)

\* Seeded fault for C17: the files document is written although the stream
\* failed.
FilesAfterErrorKept(fid) == fsFiles \cup {fid}

\* The bucket's files documents after a stream error: the files document is
\* written only when the stream finishes.
FilesAfterError(fid) == fsFiles

\* Seeded fault for C1: the stream error is swallowed and the create goes on
\* with the id of an object that has no files document.
UploadFailedResolves(p, pr, fid) ==
  Goto(p, [pr EXCEPT !.pc = "c_txn", !.fileIds = <<fid>>])

\* uploadToGridFS, the stream's "error" handler: the promise rejects, and
\* createWithTransaction (fileId still null) rethrows without cleanup.
UploadFailed(p, pr, fid) == Return(p, pr, "UploadError")

UploadToGridFS(p, pr) ==
  /\ LET fid == Oid(ids.file + 1)
         parts == SplitChunks(pr.data, GridfsChunkSize)
     IN /\ ids' = Counted(p, [ids EXCEPT !.file = @ + 1])
        /\ \/ \* "finish": chunks and the files document are written
              /\ fsChunks' = Put(fsChunks, fid, parts)
              /\ fsFiles' = fsFiles \cup {fid}
              /\ Goto(p, [pr EXCEPT !.pc = "c_txn", !.fileIds = <<fid>>])
              /\ UNCHANGED faults
           \/ \* "error": a prefix of the chunks may stay, no files document
              /\ CanFail
              /\ faults' = faults + 1
              /\ \E k \in 0..(Len(parts) - 1) :
                   fsChunks' = IF k = 0 THEN fsChunks
                               ELSE Put(fsChunks, fid, SubSeq(parts, 1, k))
              /\ fsFiles' = FilesAfterError(fid)
              /\ UploadFailed(p, pr, fid)
  /\ UNCHANGED <<customers, images, sessions, chunks, origin, submitted>>

\* CustomerImageService.uploadImage
UploadImage(p) ==
  /\ procs[p].pc = "idle"
  /\ CallsLeft
  /\ FilesLeft >= 1
  /\ \E c \in CustomerParams, b \in Buffers :
       UploadToGridFS(p, [FreshProc EXCEPT !.pc = "c_upload", !.op = "uploadImage",
                                           !.customerId = c, !.data = b])

\* The record createWithTransaction inserts for the written object.
NewImage(pr, n) ==
  [_id |-> Oid(n), customerId |-> pr.customerId,
   size |-> Len(pr.data), fileId |-> pr.fileIds[1], labels |-> pr.labels]

\* Where the caller of createWithTransaction goes once it returned.
AfterCreate(pr) == IF pr.op = "finalizeUpload" THEN "f_delete_session" ELSE "idle"

\* createWithTransaction: session.withTransaction(insertOne + $inc)
CreateTxn(p) ==
  LET pr == procs[p] IN
  /\ pr.pc = "c_txn"
  /\ \/ \* commit
        LET img == NewImage(pr, ids.image + 1) IN
        /\ images' = images \cup {img}
        /\ customers' = IncImageCount(customers, pr.customerId, 1)
        /\ ids' = [ids EXCEPT !.image = @ + 1]
        /\ origin' = Put(origin, img._id,
                         [op |-> pr.op, input |-> pr.data, uploadId |-> pr.uploadId,
                          totalSize |-> pr.session.totalSize,
                          complete |-> pr.complete, gap |-> pr.gap,
                          expected |-> pr.expected])
        /\ IF AfterCreate(pr) = "idle"
           THEN Return(p, [pr EXCEPT !.image = img], "OK")
           ELSE Goto(p, [pr EXCEPT !.pc = AfterCreate(pr), !.image = img])
        /\ UNCHANGED faults
     \/ \* the transaction aborts and withTransaction throws
        /\ CanFail
        /\ faults' = faults + 1
        /\ Goto(p, [pr EXCEPT !.pc = "c_cleanup", !.txFailed = TRUE])
        /\ UNCHANGED <<images, customers, ids, origin>>
  /\ UNCHANGED <<fsFiles, fsChunks, sessions, chunks, submitted>>

\* Seeded fault for C3: a failed cleanup replaces the error that is rethrown.
CleanupErrorMasks(cleanupFailed) ==
  IF cleanupFailed THEN "CleanupError" ELSE "TxnError"

\* The error createWithTransaction rethrows after its cleanup attempt.
RethrownError(cleanupFailed) == "TxnError"

\* createWithTransaction, catch block: deleteFromGridFS(fileId), then throw error
CreateCleanup(p) ==
  LET pr == procs[p]
      fid == pr.fileIds[1] IN
  /\ pr.pc = "c_cleanup"
  /\ \/ /\ fsFiles' = fsFiles \ {fid}
        /\ fsChunks' = Drop(fsChunks, fid)
        /\ Return(p, pr, RethrownError(FALSE))
     \/ \* the cleanup fails as well (the outage that aborted the transaction
        \* goes on): logged only
        /\ Return(p, [pr EXCEPT !.cleanupFailed = TRUE], RethrownError(TRUE))
        /\ UNCHANGED <<fsFiles, fsChunks>>
  /\ UNCHANGED <<customers, images, sessions, chunks, ids, faults, origin, submitted>>

-----------------------------------------------------------------------------
(* CustomerImageRepository.createManyWithTransaction.                      *)

\* The batches callers upload (the route sends two or more files here).
Batches == {<<a, b>> : a \in Buffers, b \in Buffers}

\* One turn of the upload loop: the next file of the batch.
BatchUploadToGridFS(p, pr) ==
  /\ LET fid == Oid(ids.file + 1)
         k == Len(pr.fileIds) + 1
         parts == SplitChunks(pr.batch[k], GridfsChunkSize)
     IN /\ ids' = Counted(p, [ids EXCEPT !.file = @ + 1])
        /\ \/ /\ fsChunks' = Put(fsChunks, fid, parts)
              /\ fsFiles' = fsFiles \cup {fid}
              /\ Goto(p, [pr EXCEPT !.pc = IF k = Len(pr.batch) THEN "m_txn"
                                                ELSE "m_upload",
                                        !.fileIds = Append(@, fid)])
              /\ UNCHANGED faults
           \/ /\ CanFail
              /\ faults' = faults + 1
              /\ \E n \in 0..(Len(parts) - 1) :
                   fsChunks' = IF n = 0 THEN fsChunks
                               ELSE Put(fsChunks, fid, SubSeq(parts, 1, n))
              /\ fsFiles' = FilesAfterError(fid)
              /\ IF pr.fileIds = <<>> THEN Return(p, pr, "UploadError")
                 ELSE Goto(p, [pr EXCEPT !.pc = "m_cleanup", !.res = "UploadError",
                                             !.index = 1])
  /\ UNCHANGED <<customers, images, sessions, chunks, origin, submitted>>

\* CustomerImageService.uploadMultipleImages
UploadMultipleImages(p) ==
  /\ procs[p].pc = "idle"
  /\ CallsLeft
  /\ \E c \in CustomerParams, b \in Batches :
       /\ FilesLeft >= Len(b)
       /\ BatchUploadToGridFS(p, [FreshProc EXCEPT !.pc = "m_upload",
                                    !.op = "uploadMultipleImages",
                                    !.customerId = c, !.batch = b])

\* createManyWithTransaction: the upload loop, second and later files
BatchUpload(p) ==
  /\ procs[p].pc = "m_upload"
  /\ BatchUploadToGridFS(p, procs[p])

\* The records createManyWithTransaction inserts, one per written object.
NewImages(pr, n) ==
  {[_id |-> Oid(n + k), customerId |-> pr.customerId,
    size |-> Len(pr.batch[k]), fileId |-> pr.fileIds[k], labels |-> pr.labels] :
     k \in 1..Len(pr.batch)}

\* createManyWithTransaction: session.withTransaction(insertMany + $inc n)
BatchTxn(p) ==
  LET pr == procs[p] IN
  /\ pr.pc = "m_txn"
  /\ \/ LET new == NewImages(pr, ids.image) IN
        /\ images' = images \cup new
        /\ customers' = IncImageCount(customers, pr.customerId, Len(pr.batch))
        /\ ids' = [ids EXCEPT !.image = @ + Len(pr.batch)]
        /\ origin' = [i \in DOMAIN origin \cup {x._id : x \in new} |->
                        IF i \in DOMAIN origin THEN origin[i]
                        ELSE [op |-> pr.op, input |-> pr.batch[i[2] - ids.image],
                              uploadId |-> pr.uploadId, totalSize |-> 0,
                              complete |-> FALSE, gap |-> FALSE, expected |-> <<>>]]
        /\ Return(p, pr, "OK")
        /\ UNCHANGED faults
     \/ /\ CanFail
        /\ faults' = faults + 1
        /\ Goto(p, [pr EXCEPT !.pc = "m_cleanup", !.res = "TxnError",
                                  !.txFailed = TRUE, !.index = 1])
        /\ UNCHANGED <<images, customers, ids, origin>>
  /\ UNCHANGED <<fsFiles, fsChunks, sessions, chunks, submitted>>

\* createManyWithTransaction, catch block: one turn of the cleanup loop
BatchCleanup(p) ==
  LET pr == procs[p]
      fid == pr.fileIds[pr.index]
      after == [pr EXCEPT !.index = @ + 1] IN
  /\ pr.pc = "m_cleanup"
  /\ \/ /\ fsFiles' = fsFiles \ {fid}
        /\ fsChunks' = Drop(fsChunks, fid)
        /\ IF pr.index = Len(pr.fileIds) THEN Return(p, pr, pr.res)
           ELSE Goto(p, after)
     \/ \* this delete fails: logged only, the loop goes on
        /\ IF pr.index = Len(pr.fileIds)
           THEN Return(p, [pr EXCEPT !.cleanupFailed = TRUE], pr.res)
           ELSE Goto(p, [after EXCEPT !.cleanupFailed = TRUE])
        /\ UNCHANGED <<fsFiles, fsChunks>>
  /\ UNCHANGED <<customers, images, sessions, chunks, ids, faults, origin, submitted>>

-----------------------------------------------------------------------------
(* CustomerImageService.getImageData.                                      *)

\* getImageData: repository.findById and the 404 check
GetImageData(p) ==
  /\ procs[p].pc = "idle"
  /\ CallsLeft
  /\ \E n \in 1..MaxFiles :
       LET pr == [FreshProc EXCEPT !.op = "getImageData", !.imageId = Hex(n)]
           found == FindImage(pr.imageId)
       IN IF found = {} THEN Return(p, pr, "IMAGE_NOT_FOUND")
          ELSE Goto(p, [pr EXCEPT !.pc = "g_download",
                                      !.image = CHOOSE i \in found : TRUE])
  /\ UNCHANGED <<customers, images, fsFiles, fsChunks, sessions, chunks, faults, origin,
                 submitted>>
  /\ ids' = Counted(p, ids)

\* getImageData: repository.downloadFromGridFS(image.fileId)
GetDownload(p) ==
  LET pr == procs[p]
      fid == pr.image.fileId IN
  /\ pr.pc = "g_download"
  /\ IF fid \in fsFiles
     THEN Return(p, [pr EXCEPT !.buffer = DownloadFromGridFS(fid)], "OK")
     ELSE Return(p, pr, "GridFSError")
  /\ UNCHANGED <<customers, images, fsFiles, fsChunks, sessions, chunks,
                 ids, faults, origin, submitted>>

-----------------------------------------------------------------------------
(* CustomerImageService.deleteImage and                                    *)
(* CustomerImageRepository.deleteWithTransaction.                          *)

\* Seeded fault for C11: deleteImage without the ownership check.
DeleteImageAnyOwner(p) ==
  /\ procs[p].pc = "idle"
  /\ CallsLeft
  /\ \E c \in CustomerParams, n \in 1..MaxFiles :
       LET pr == [FreshProc EXCEPT !.op = "deleteImage", !.customerId = c,
                                   !.imageId = Hex(n)]
       IN IF FindImage(pr.imageId) = {} THEN Return(p, pr, "IMAGE_NOT_FOUND")
          ELSE Goto(p, [pr EXCEPT !.pc = "d_find"])
  /\ UNCHANGED <<customers, images, fsFiles, fsChunks, sessions, chunks, faults, origin,
                 submitted>>
  /\ ids' = Counted(p, ids)

\* deleteImage: findMetadataById, the 404 and 403 checks
DeleteImage(p) ==
  /\ procs[p].pc = "idle"
  /\ CallsLeft
  /\ \E c \in CustomerParams, n \in 1..MaxFiles :
       LET pr == [FreshProc EXCEPT !.op = "deleteImage", !.customerId = c,
                                   !.imageId = Hex(n)]
           found == FindImage(pr.imageId)
       IN IF found = {} THEN Return(p, pr, "IMAGE_NOT_FOUND")
          ELSE LET img == CHOOSE i \in found : TRUE IN
               IF img.customerId # c THEN Return(p, pr, "FORBIDDEN")
               ELSE Goto(p, [pr EXCEPT !.pc = "d_find"])
  /\ UNCHANGED <<customers, images, fsFiles, fsChunks, sessions, chunks, faults, origin,
                 submitted>>
  /\ ids' = Counted(p, ids)

\* Seeded fault for C4: the object is deleted as soon as the fileId is known,
\* before the metadata transaction.
DeleteFindObjectFirst(p) ==
  LET pr == procs[p]
      found == FindImage(pr.imageId) IN
  /\ pr.pc = "d_find"
  /\ IF found = {}
     THEN /\ Return(p, pr, "Error: Image not found")
          /\ UNCHANGED <<fsFiles, fsChunks>>
     ELSE LET img == CHOOSE i \in found : TRUE IN
          /\ fsFiles' = fsFiles \ {img.fileId}
          /\ fsChunks' = [f \in DOMAIN fsChunks \ {img.fileId} |-> fsChunks[f]]
          /\ Goto(p, [pr EXCEPT !.pc = "d_txn", !.image = img])
  /\ UNCHANGED <<customers, images, sessions, chunks, ids, faults, origin, submitted>>

\* deleteWithTransaction: findById to learn the fileId
DeleteFind(p) ==
  LET pr == procs[p]
      found == FindImage(pr.imageId) IN
  /\ pr.pc = "d_find"
  /\ IF found = {} THEN Return(p, pr, "Error: Image not found")
     ELSE Goto(p, [pr EXCEPT !.pc = "d_txn", !.image = CHOOSE i \in found : TRUE])
  /\ UNCHANGED <<customers, images, fsFiles, fsChunks, sessions, chunks,
                 ids, faults, origin, submitted>>

\* deleteWithTransaction: session.withTransaction(deleteOne + $inc -1)
DeleteTxn(p) ==
  LET pr == procs[p]
      found == FindImage(pr.imageId) IN
  /\ pr.pc = "d_txn"
  /\ \/ /\ found # {}
        /\ images' = images \ found
        /\ customers' = IncImageCount(customers, pr.customerId, -1)
        /\ Goto(p, [pr EXCEPT !.pc = "d_gridfs"])
        /\ UNCHANGED faults
     \/ \* deletedCount === 0: throw inside the transaction
        /\ found = {}
        /\ Return(p, pr, "Error: Image not found")
        /\ UNCHANGED <<images, customers, faults>>
     \/ /\ CanFail
        /\ faults' = faults + 1
        /\ Return(p, [pr EXCEPT !.txFailed = TRUE], "TxnError")
        /\ UNCHANGED <<images, customers>>
  /\ UNCHANGED <<fsFiles, fsChunks, sessions, chunks, ids, origin, submitted>>

\* deleteWithTransaction: deleteFromGridFS(image.fileId), then return deleted
DeleteObject(p) ==
  LET pr == procs[p]
      fid == pr.image.fileId IN
  /\ pr.pc = "d_gridfs"
  /\ \/ /\ fid \in fsFiles
        /\ fsFiles' = fsFiles \ {fid}
        /\ fsChunks' = Drop(fsChunks, fid)
        /\ Return(p, pr, "OK")
        /\ UNCHANGED faults
     \/ \* bucket.delete throws FileNotFound
        /\ fid \notin fsFiles
        /\ Return(p, pr, "GridFSError")
        /\ UNCHANGED <<fsFiles, fsChunks, faults>>
     \/ /\ CanFail
        /\ faults' = faults + 1
        /\ Return(p, pr, "GridFSError")
        /\ UNCHANGED <<fsFiles, fsChunks>>
  /\ UNCHANGED <<customers, images, sessions, chunks, ids, origin, submitted>>

-----------------------------------------------------------------------------
(* Resumable uploads: UploadSessionRepository and the service methods      *)
(* initUpload, uploadChunk and finalizeUpload.                             *)

\* sessionCollection.findOne({ _id: new ObjectId(uploadId) })
FindSession(uploadId) == {s \in sessions : s._id = ObjectIdFromHex(uploadId)}

\* The stored chunks of an upload.
ChunksOf(oid) == {d \in chunks : d.uploadId = oid}

\* The stored chunks a saveChunk filter { uploadId, index } matches.
Matching(oid, index) == {d \in ChunksOf(oid) : d.index = index}

\* initSchema: totalSize: z.number().int().positive()
InitSchema(totalSize) == totalSize > 0

\* POST /:customerId/upload/init and initUpload: createSession with the
\* validated input.  createdAt is the clock as the call reads it first;
\* Date.now() for expiresAt is a later reading of the clock.
InitUpload(p) ==
  /\ procs[p].pc = "idle"
  /\ CallsLeft
  /\ \E c \in CustomerParams, t \in TotalSizeInputs, d \in ClockTicks :
       LET pr == [FreshProc EXCEPT !.op = "initUpload", !.customerId = c]
           createdAt == now
       IN IF ~InitSchema(t)
          THEN /\ ids' = Counted(p, ids)
               /\ Return(p, pr, "VALIDATION_ERROR")
               /\ UNCHANGED sessions
          ELSE /\ ids.session < MaxSessions
               /\ sessions' = sessions \cup
                    {[_id |-> Oid(ids.session + 1), customerId |-> c,
                      totalSize |-> t, uploadedChunks |-> {},
                      status |-> "pending", createdAt |-> createdAt,
                      expiresAt |-> createdAt + d + DayMs]}
               /\ ids' = Counted(p, [ids EXCEPT !.session = @ + 1])
               /\ Return(p, [pr EXCEPT !.uploadId = Hex(ids.session + 1)], "OK")
  /\ UNCHANGED <<customers, images, fsFiles, fsChunks, chunks, faults, origin,
                 submitted>>

\* Chunk documents that requests already under way may still insert.
PendingChunks(pr) == IF pr.pc \in {"u_upsert", "u_insert"} THEN 1 ELSE 0

RECURSIVE SumPendingChunks(_)
SumPendingChunks(S) ==
  IF S = {} THEN 0
  ELSE LET q == CHOOSE x \in S : TRUE
       IN PendingChunks(procs[q]) + SumPendingChunks(S \ {q})

\* Seeded fault for C12: uploadChunk stores the chunk whether or not the
\* session exists.
UploadChunkAnySession(p) ==
  /\ procs[p].pc = "idle"
  /\ CallsLeft
  /\ ids.chunk + SumPendingChunks(Procs) < MaxChunkDocs
  /\ \E n \in 1..MaxSessions, i \in Indices, d \in ChunkPayloads :
       Goto(p, [FreshProc EXCEPT !.pc = "u_upsert", !.op = "uploadChunk",
                                 !.uploadId = Hex(n), !.index = i, !.data = d,
                                 !.session = [NoSession EXCEPT !._id = Oid(n)]])
  /\ UNCHANGED <<customers, images, fsFiles, fsChunks, sessions, chunks, faults, origin,
                 submitted>>
  /\ ids' = Counted(p, ids)

\* Number.NaN as an index: in the store NaN equals NaN and sorts before every
\* number, which is how this value compares with the indices modelled here.
NaN == -2

\* The decimal digits and their values.
DigitValue == [c \in {"0", "1", "2"} |-> IF c = "0" THEN 0 ELSE IF c = "1" THEN 1 ELSE 2]

RECURSIVE LeadingDigits(_)
\* The longest prefix of digits of a string.
LeadingDigits(str) ==
  IF str = <<>> \/ Head(str) \notin DOMAIN DigitValue THEN <<>>
  ELSE <<Head(str)>> \o LeadingDigits(Tail(str))

RECURSIVE DecimalValue(_)
\* The number a sequence of digits denotes.
DecimalValue(ds) ==
  IF ds = <<>> THEN 0
  ELSE 10 * DecimalValue(SubSeq(ds, 1, Len(ds) - 1)) + DigitValue[ds[Len(ds)]]

\* parseInt(string): an optional sign, then the leading digits; NaN when there
\* is no digit; what follows the digits is ignored.
ParseInt(str) ==
  LET neg == str # <<>> /\ Head(str) = "-"
      ds == LeadingDigits(IF neg THEN Tail(str) ELSE str)
  IN IF ds = <<>> THEN NaN
     ELSE IF neg THEN 0 - DecimalValue(ds) ELSE DecimalValue(ds)

\* uploadChunk: getSession and the 404 check, for a chunk index out of I
UploadChunkWith(p, I) ==
  /\ procs[p].pc = "idle"
  /\ CallsLeft
  /\ ids.chunk + SumPendingChunks(Procs) < MaxChunkDocs
  /\ \E n \in 1..MaxSessions, i \in I, d \in ChunkPayloads :
       LET pr == [FreshProc EXCEPT !.op = "uploadChunk", !.uploadId = Hex(n),
                                   !.index = i, !.data = d]
           found == FindSession(pr.uploadId)
       IN IF found = {} THEN Return(p, pr, "SESSION_NOT_FOUND")
          ELSE Goto(p, [pr EXCEPT !.pc = "u_upsert",
                                  !.session = SessionRead(CHOOSE s \in found : TRUE)])
  /\ UNCHANGED <<customers, images, fsFiles, fsChunks, sessions, chunks, faults, origin,
                 submitted>>
  /\ ids' = Counted(p, ids)

\* CustomerImageService.uploadChunk
UploadChunk(p) == UploadChunkWith(p, Indices)

\* POST /:customerId/upload/chunk: the index query value goes through
\* parseInt and is handed to uploadChunk as it comes out.
UploadChunkRoute(p) == UploadChunkWith(p, {ParseInt(q) : q \in IndexParams})

\* saveChunk: updateOne({ uploadId, index }, { $set: chunk }, { upsert: true }).
\* The server looks for a document to update; one that matches is updated in
\* place.  When none matches the update turns into an insert, and no unique
\* index on (uploadId, index) exists that would make a second insert fail.
SaveChunkUpsert(p) ==
  LET pr == procs[p]
      match == Matching(pr.session._id, pr.index) IN
  /\ pr.pc = "u_upsert"
  /\ IF match = {}
     THEN /\ Goto(p, [pr EXCEPT !.pc = "u_insert"])
          /\ UNCHANGED <<chunks, submitted>>
     ELSE /\ \E d \in match :
               chunks' = (chunks \ {d}) \cup {[d EXCEPT !.data = pr.data]}
          /\ submitted' = Put(submitted, <<pr.session._id, pr.index>>, pr.data)
          /\ Goto(p, [pr EXCEPT !.pc = "u_addset"])
  /\ UNCHANGED <<customers, images, fsFiles, fsChunks, sessions, ids, faults, origin>>

\* saveChunk: the insert half of the upsert
SaveChunkInsert(p) ==
  LET pr == procs[p] IN
  /\ pr.pc = "u_insert"
  /\ chunks' = chunks \cup {[_id |-> Oid(ids.chunk + 1), uploadId |-> pr.session._id,
                             index |-> pr.index, data |-> pr.data]}
  /\ ids' = [ids EXCEPT !.chunk = @ + 1]
  /\ submitted' = Put(submitted, <<pr.session._id, pr.index>>, pr.data)
  /\ Goto(p, [pr EXCEPT !.pc = "u_addset"])
  /\ UNCHANGED <<customers, images, fsFiles, fsChunks, sessions, faults, origin>>

\* saveChunk: sessionCollection.updateOne({ _id }, { $addToSet: { uploadedChunks } });
\* uploadChunk then reads the session again and returns its list
SaveChunkAddToSet(p) ==
  LET pr == procs[p] IN
  /\ pr.pc = "u_addset"
  /\ \/ /\ sessions' = {IF s._id = pr.session._id
                        THEN [s EXCEPT !.uploadedChunks = @ \cup {pr.index}]
                        ELSE s : s \in sessions}
        /\ Return(p, pr, "OK")
        /\ UNCHANGED faults
     \/ /\ CanFail
        /\ faults' = faults + 1
        /\ Return(p, pr, "StorageError")
        /\ UNCHANGED sessions
  /\ UNCHANGED <<customers, images, fsFiles, fsChunks, chunks, ids, origin, submitted>>

\* finalizeUpload: getSession and the 404 check
FinalizeUpload(p) ==
  /\ procs[p].pc = "idle"
  /\ CallsLeft
  /\ FilesLeft >= 1
  /\ \E n \in 1..MaxSessions :
       LET pr == [FreshProc EXCEPT !.op = "finalizeUpload", !.uploadId = Hex(n)]
           found == FindSession(pr.uploadId)
       IN IF found = {} THEN Return(p, pr, "SESSION_NOT_FOUND")
          ELSE LET s == CHOOSE x \in found : TRUE IN
               Goto(p, [pr EXCEPT !.pc = "f_chunks", !.session = SessionRead(s),
                                  !.customerId = s.customerId])
  /\ UNCHANGED <<customers, images, fsFiles, fsChunks, sessions, chunks, faults, origin,
                 submitted>>
  /\ ids' = Counted(p, ids)

\* Least index among chunk documents.
MinIndex(docs) == CHOOSE i \in {d.index : d \in docs} :
                    \A d \in docs : i <= d.index

RECURSIVE SortedByIndex(_)
\* find({ uploadId }).sort({ index: 1 }): every order of the documents that
\* ascends by index (documents of equal index come in either order).
SortedByIndex(docs) ==
  IF docs = {} THEN {<<>>}
  ELSE UNION {{<<d>> \o rest : rest \in SortedByIndex(docs \ {d})} :
                d \in {x \in docs : x.index = MinIndex(docs)}}

\* chunks.map(c => c.data.buffer)
Payloads(list) == [k \in 1..Len(list) |-> list[k].data]

\* The indices submitted so far for an upload.
SubmittedIndices(oid) == {k[2] : k \in {x \in DOMAIN submitted : x[1] = oid}}

\* The most recent payloads of indices 0 .. n-1, in index order.
SubmittedInOrder(oid, n) == [k \in 1..n |-> submitted[<<oid, k - 1>>]]

\* A set of chunk indices with a missing index below its largest one.
HasGap(idx) == \E i \in idx : \E j \in 0..(i - 1) : j \notin idx

\* finalizeUpload: getChunks, the empty check, Buffer.concat
FinalizeGetChunks(p) ==
  LET pr == procs[p]
      oid == pr.session._id
      docs == ChunksOf(oid)
      n == Cardinality(SubmittedIndices(oid)) IN
  /\ pr.pc = "f_chunks"
  /\ IF docs = {} THEN Return(p, pr, "INVALID_UPLOAD")
     ELSE \E list \in SortedByIndex(docs) :
            LET all == SubmittedIndices(oid) = 0..(n - 1)
                exp == IF all THEN ConcatAll(SubmittedInOrder(oid, n)) ELSE <<>>
            IN Goto(p, [pr EXCEPT !.pc = "c_upload",
                                  !.data = ConcatAll(Payloads(list)),
                                  !.complete = all /\ Len(exp) = pr.session.totalSize,
                                  !.gap = HasGap({d.index : d \in docs}),
                                  !.expected = exp])
  /\ UNCHANGED <<customers, images, fsFiles, fsChunks, sessions, chunks,
                 ids, faults, origin, submitted>>

\* finalizeUpload: createWithTransaction with the merged buffer, first step
FinalizeCreate(p) ==
  /\ procs[p].pc = "c_upload"
  /\ UploadToGridFS(p, procs[p])

\* Seeded fault for C13: the cleanup leaves the session record in place.
FinalizeKeepsSession(p) ==
  /\ procs[p].pc = "f_delete_session"
  /\ Goto(p, [procs[p] EXCEPT !.pc = "f_delete_chunks"])
  /\ UNCHANGED <<customers, images, fsFiles, fsChunks, sessions, chunks,
                 ids, faults, origin, submitted>>

\* deleteSessionAndChunks: sessionCollection.deleteOne({ _id })
FinalizeDeleteSession(p) ==
  LET pr == procs[p] IN
  /\ pr.pc = "f_delete_session"
  /\ \/ /\ sessions' = sessions \ FindSession(pr.uploadId)
        /\ Goto(p, [pr EXCEPT !.pc = "f_delete_chunks"])
        /\ UNCHANGED faults
     \/ /\ CanFail
        /\ faults' = faults + 1
        /\ Return(p, pr, "StorageError")
        /\ UNCHANGED sessions
  /\ UNCHANGED <<customers, images, fsFiles, fsChunks, chunks, ids, origin, submitted>>

\* deleteSessionAndChunks: chunkCollection.deleteMany({ uploadId }); return
FinalizeDeleteChunks(p) ==
  LET pr == procs[p] IN
  /\ pr.pc = "f_delete_chunks"
  /\ \/ /\ chunks' = chunks \ ChunksOf(ObjectIdFromHex(pr.uploadId))
        /\ Return(p, pr, "OK")
        /\ UNCHANGED faults
     \/ /\ CanFail
        /\ faults' = faults + 1
        /\ Return(p, pr, "StorageError")
        /\ UNCHANGED chunks
  /\ UNCHANGED <<customers, images, fsFiles, fsChunks, sessions, ids, origin, submitted>>

-----------------------------------------------------------------------------
(* CustomerService.deleteCustomer, the hard delete of a customer with its   *)
(* images.  What the transaction wrote stays with the request until the     *)
(* commit; the GridFS deletes take effect at once.                          *)

RECURSIVE SetToSeq(_)
\* toArray(): the elements of a set in some order.
SetToSeq(S) ==
  IF S = {} THEN <<>>
  ELSE LET x == CHOOSE y \in S : TRUE IN <<x>> \o SetToSeq(S \ {x})

\* deleteCustomer: repository.exists and the 404 check (role admin: hard delete)
DeleteCustomer(p) ==
  /\ procs[p].pc = "idle"
  /\ CallsLeft
  /\ \E c \in CustomerParams :
       LET pr == [FreshProc EXCEPT !.op = "deleteCustomer", !.customerId = c] IN
       IF ObjectIdFromHex(c) \notin DOMAIN customers
       THEN Return(p, pr, "CUSTOMER_NOT_FOUND")
       ELSE Goto(p, [pr EXCEPT !.pc = "dc_txn"])
  /\ ids' = Counted(p, ids)
  /\ UNCHANGED <<customers, images, fsFiles, fsChunks, sessions, chunks, faults,
                 origin, submitted>>

\* The transaction's callback up to the GridFS loop: repository.delete in the
\* transaction, then deleteAllByCustomerId: find({ customerId }).toArray() and
\* deleteMany({ customerId }) in the transaction.
DeleteCustomerFind(p) ==
  LET pr == procs[p]
      found == {i \in images : i.customerId = pr.customerId} IN
  /\ pr.pc = "dc_txn"
  /\ IF ObjectIdFromHex(pr.customerId) \notin DOMAIN customers
     THEN Return(p, pr, "DELETE_FAILED")
     ELSE Goto(p, [pr EXCEPT !.pc = IF found = {} THEN "dc_commit" ELSE "dc_objects",
                             !.fileIds = SetToSeq({i.fileId : i \in found}),
                             !.index = 1])
  /\ UNCHANGED <<customers, images, fsFiles, fsChunks, sessions, chunks, ids, faults,
                 origin, submitted>>

\* deleteAllByCustomerId: one turn of the loop over the images found,
\* deleteFromGridFS(image.fileId); an error is logged and the loop goes on.
DeleteCustomerObjects(p) ==
  LET pr == procs[p]
      fid == pr.fileIds[pr.index]
      after == [pr EXCEPT !.index = @ + 1,
                          !.pc = IF pr.index = Len(pr.fileIds) THEN "dc_commit"
                                 ELSE "dc_objects"] IN
  /\ pr.pc = "dc_objects"
  /\ \/ /\ fsFiles' = fsFiles \ {fid}
        /\ fsChunks' = [f \in DOMAIN fsChunks \ {fid} |-> fsChunks[f]]
        /\ Goto(p, after)
     \/ /\ fid \notin fsFiles
        /\ Goto(p, [after EXCEPT !.cleanupFailed = TRUE])
        /\ UNCHANGED <<fsFiles, fsChunks>>

\* deleteAllByCustomerId, the GridFS loop
DeleteCustomerObject(p) ==
  /\ DeleteCustomerObjects(p)
  /\ UNCHANGED <<customers, images, sessions, chunks, ids, faults, origin, submitted>>

\* session.withTransaction: the commit of the callback's writes; an abort
\* either runs the callback again or is thrown.
DeleteCustomerCommit(p) ==
  LET pr == procs[p]
      c == ObjectIdFromHex(pr.customerId)
      gone == {i \in images : /\ i.customerId = pr.customerId
                              /\ \E k \in 1..Len(pr.fileIds) : pr.fileIds[k] = i.fileId} IN
  /\ pr.pc = "dc_commit"
  /\ \/ /\ c \in DOMAIN customers
        /\ customers' = Drop(customers, c)
        /\ images' = images \ gone
        /\ Return(p, pr, "OK")
        /\ UNCHANGED faults
     \/ \* the customer was deleted meanwhile: write conflict, and the callback
        \* run again finds nothing to delete
        /\ c \notin DOMAIN customers
        /\ Return(p, pr, "DELETE_FAILED")
        /\ UNCHANGED <<customers, images, faults>>
     \/ /\ CanFail
        /\ faults' = faults + 1
        /\ \/ Return(p, [pr EXCEPT !.txFailed = TRUE], "TxnError")
           \/ Goto(p, [pr EXCEPT !.pc = "dc_txn", !.txFailed = TRUE])
        /\ UNCHANGED <<customers, images>>
  /\ UNCHANGED <<fsFiles, fsChunks, sessions, chunks, ids, origin, submitted>>

-----------------------------------------------------------------------------
(* Labels: CustomerImageLabelService and CustomerImageLabelRepository, and  *)
(* the image operations that set an image's labels.                        *)

\* ObjectId.toHexString(): the id of a label as the API hands it out.
ToHexString(o) == Hex(o[2])

\* The label sets callers tag an image with: ids of labels that exist.
LabelChoices == SUBSET {ToHexString(l) : l \in labels} \ {{}}

\* createLabel: insertOne of a label without _id (MongoDB generates it)
CreateLabel(p) ==
  /\ procs[p].pc = "idle"
  /\ CallsLeft
  /\ ids.label < MaxLabels
  /\ labels' = labels \cup {Oid(ids.label + 1)}
  /\ ids' = Counted(p, [ids EXCEPT !.label = @ + 1])
  /\ Return(p, [FreshProc EXCEPT !.op = "createLabel"], "OK")
  /\ UNCHANGED <<customers, images, fsFiles, fsChunks, sessions, chunks, faults,
                 origin, submitted>>

\* CustomerImageService.uploadImage with input.labels given
UploadLabelledImage(p) ==
  /\ procs[p].pc = "idle"
  /\ CallsLeft
  /\ FilesLeft >= 1
  /\ \E c \in CustomerParams, b \in Buffers, L \in LabelChoices :
       UploadToGridFS(p, [FreshProc EXCEPT !.pc = "c_upload", !.op = "uploadImage",
                                           !.customerId = c, !.data = b,
                                           !.labels = L])
  /\ UNCHANGED labels

\* updateImage: repository.exists and the 404 check
UpdateImage(p) ==
  /\ procs[p].pc = "idle"
  /\ CallsLeft
  /\ \E n \in 1..MaxFiles, L \in LabelChoices \cup {{}} :
       LET pr == [FreshProc EXCEPT !.op = "updateImage", !.imageId = Hex(n),
                                   !.labels = L]
       IN IF FindImage(pr.imageId) = {} THEN Return(p, pr, "IMAGE_NOT_FOUND")
          ELSE Goto(p, [pr EXCEPT !.pc = "p_update"])
  /\ ids' = Counted(p, ids)
  /\ UNCHANGED <<customers, images, fsFiles, fsChunks, sessions, chunks, faults,
                 origin, submitted, labels>>

\* updateImage: repository.update, findOneAndUpdate({ _id }, { $set: updates })
UpdateSet(p) ==
  LET pr == procs[p]
      found == FindImage(pr.imageId) IN
  /\ pr.pc = "p_update"
  /\ IF found = {}
     THEN /\ Return(p, pr, "UPDATE_FAILED")
          /\ UNCHANGED images
     ELSE /\ images' = (images \ found) \cup
                         {[i EXCEPT !.labels = pr.labels] : i \in found}
          /\ Return(p, pr, "OK")
  /\ UNCHANGED <<customers, fsFiles, fsChunks, sessions, chunks, ids, faults,
                 origin, submitted, labels>>

\* deleteLabel: repository.exists and the 404 check
DeleteLabel(p) ==
  /\ procs[p].pc = "idle"
  /\ CallsLeft
  /\ \E n \in 1..MaxLabels :
       LET pr == [FreshProc EXCEPT !.op = "deleteLabel", !.labels = {Hex(n)}]
       IN IF ObjectIdFromHex(Hex(n)) \notin labels
          THEN Return(p, pr, "LABEL_NOT_FOUND")
          ELSE Goto(p, [pr EXCEPT !.pc = "l_txn"])
  /\ ids' = Counted(p, ids)
  /\ UNCHANGED <<customers, images, fsFiles, fsChunks, sessions, chunks, faults,
                 origin, submitted, labels>>

\* updateMany({ labels: new ObjectId(labelId) },
\*            { $pull: { labels: new ObjectId(labelId) } }):
\* the value pulled from every labels array is the ObjectId made of labelId.
PullLabel(coll, labelId) ==
  {[i EXCEPT !.labels = @ \ {ObjectIdFromHex(labelId)}] : i \in coll}

\* CustomerImageLabelRepository.deleteWithTransaction:
\* session.withTransaction(deleteOne label + $pull from every image)
DeleteLabelTxn(p) ==
  LET pr == procs[p]
      labelId == CHOOSE l \in pr.labels : TRUE IN
  /\ pr.pc = "l_txn"
  /\ \/ /\ ObjectIdFromHex(labelId) \in labels
        /\ labels' = labels \ {ObjectIdFromHex(labelId)}
        /\ images' = PullLabel(images, labelId)
        /\ Return(p, pr, "OK")
        /\ UNCHANGED faults
     \/ \* deletedCount === 0: throw inside the transaction
        /\ ObjectIdFromHex(labelId) \notin labels
        /\ Return(p, pr, "Error: Label not found")
        /\ UNCHANGED <<labels, images, faults>>
     \/ /\ CanFail
        /\ faults' = faults + 1
        /\ Return(p, [pr EXCEPT !.txFailed = TRUE], "TxnError")
        /\ UNCHANGED <<labels, images>>
  /\ UNCHANGED <<customers, fsFiles, fsChunks, sessions, chunks, ids, origin,
                 submitted>>

-----------------------------------------------------------------------------
(* Tenant partitions (config/database.ts): every company has its own       *)
(* database fi_<companyId>; Db and GridFSBucket handles are cached per      *)
(* process.  Names are sequences of characters.  A stored item remembers    *)
(* the database it lies in, its collection, and the company whose request   *)
(* wrote it.                                                               *)

\* Company ids: new ObjectId().toHexString(), hex strings of one length.
CompanyIds == {<<"a", "b">>, <<"b", "a">>}

\* The collections the repositories reach through getDatabaseForCompany.
Collections == {"customer_images", "upload_chunks"}

\* The bucket the image repository asks for.
ImagesBucket == <<"i", "m", "a", "g", "e", "s">>

\* const dbName = `fi_${companyId}`
DbName(companyId) == <<"f", "i", "_">> \o companyId

\* A cache key that leaves the company id out.
BucketCacheKeyShared(companyId, bucketName) == bucketName

\* const cacheKey = `${companyId}_${bucketName}`
BucketCacheKey(companyId, bucketName) == companyId \o <<"_">> \o bucketName

\* if (!client) throw new Error("Database not connected ...")
Connected == client.open

\* client.db(dbName): a new Db object of the current client.
NewDb(companyId) ==
  [name |-> DbName(companyId), client |-> client.gen, id |-> handleSeq + 1]

\* getDatabaseForCompany: the cached Db of the name, else client.db(dbName).
DbFor(companyId) ==
  IF DbName(companyId) \in DOMAIN dbCache THEN dbCache[DbName(companyId)]
  ELSE NewDb(companyId)

\* getDatabaseForCompany: dbCache.set(dbName, db)
DbCached(companyId) == Put(dbCache, DbName(companyId), DbFor(companyId))

\* getDatabaseForCompany can go on: a Db is cached, or one more may be made.
CanOpen(companyId) ==
  DbName(companyId) \in DOMAIN dbCache \/ handleSeq < MaxHandles

\* getDatabaseForCompany, what the call leaves behind: on a cache miss the new
\* Db is cached and createIndexesForCompany(db) is scheduled.
OpenDb(companyId) ==
  /\ dbCache' = DbCached(companyId)
  /\ IF DbName(companyId) \in DOMAIN dbCache
     THEN UNCHANGED <<handleSeq, indexRuns>>
     ELSE /\ handleSeq' = handleSeq + 1
          /\ indexRuns' = indexRuns \cup {NewDb(companyId)}

\* getGridFSBucket: the cached bucket of the key, else
\* new GridFSBucket(getDatabaseForCompany(companyId), { bucketName });
\* a bucket handle is the Db it is bound to.
BucketFor(companyId, bucketName) ==
  LET key == BucketCacheKey(companyId, bucketName) IN
  IF key \in DOMAIN gridFSCache THEN gridFSCache[key] ELSE DbFor(companyId)

\* getGridFSBucket can go on.
CanOpenBucket(companyId, bucketName) ==
  BucketCacheKey(companyId, bucketName) \in DOMAIN gridFSCache \/ CanOpen(companyId)

\* getGridFSBucket, the caches after the call: the Db is looked up (and
\* cached) only when the bucket was not cached.
GetGridFSBucket(companyId, bucketName) ==
  LET key == BucketCacheKey(companyId, bucketName) IN
  IF key \in DOMAIN gridFSCache
  THEN UNCHANGED <<dbCache, gridFSCache, handleSeq, indexRuns>>
  ELSE /\ OpenDb(companyId)
       /\ gridFSCache' = Put(gridFSCache, key, DbFor(companyId))

\* A repository insert under a company id (insertOne, upsert).
CompanyInsert(c, coll) ==
  /\ Connected /\ CanOpen(c)
  /\ OpenDb(c)
  /\ store' = store \cup {[db |-> DbFor(c).name, coll |-> coll, owner |-> c]}
  /\ UNCHANGED <<gridFSCache, revealed, client, handed, drops>>

\* A repository read under a company id (find, findOne).
CompanyFind(c, coll) ==
  /\ Connected /\ CanOpen(c)
  /\ OpenDb(c)
  /\ revealed' = [company |-> c,
                  items |-> {x \in store : x.db = DbFor(c).name /\ x.coll = coll}]
  /\ UNCHANGED <<gridFSCache, store, client, handed, drops>>

\* A repository delete under a company id (deleteOne, deleteMany).
CompanyDelete(c, coll) ==
  /\ Connected /\ CanOpen(c)
  /\ OpenDb(c)
  /\ store' = {x \in store : ~(x.db = DbFor(c).name /\ x.coll = coll)}
  /\ UNCHANGED <<gridFSCache, revealed, client, handed, drops>>

\* uploadToGridFS under a company id.
CompanyUpload(c) ==
  /\ Connected /\ CanOpenBucket(c, ImagesBucket)
  /\ GetGridFSBucket(c, ImagesBucket)
  /\ store' = store \cup {[db |-> BucketFor(c, ImagesBucket).name,
                           coll |-> "images.files", owner |-> c]}
  /\ UNCHANGED <<revealed, client, handed, drops>>

\* downloadFromGridFS under a company id.
CompanyDownload(c) ==
  /\ Connected /\ CanOpenBucket(c, ImagesBucket)
  /\ GetGridFSBucket(c, ImagesBucket)
  /\ revealed' = [company |-> c,
                  items |-> {x \in store : x.db = BucketFor(c, ImagesBucket).name
                                           /\ x.coll = "images.files"}]
  /\ UNCHANGED <<store, client, handed, drops>>

\* deleteFromGridFS under a company id.
CompanyDeleteObject(c) ==
  /\ Connected /\ CanOpenBucket(c, ImagesBucket)
  /\ GetGridFSBucket(c, ImagesBucket)
  /\ store' = {x \in store : ~(x.db = BucketFor(c, ImagesBucket).name
                               /\ x.coll = "images.files")}
  /\ UNCHANGED <<revealed, client, handed, drops>>

-----------------------------------------------------------------------------
(* The connection and the handle caches (config/database.ts).  handed is     *)
(* what the last call of this section gave back.                           *)

\* getDatabaseForCompany(companyId) as its callers see it
GetDatabaseForCompany(c) ==
  /\ IF ~Connected
     THEN /\ handed' = Handed("getDatabaseForCompany", c, "NotConnected", NoHandle)
          /\ UNCHANGED <<dbCache, handleSeq, indexRuns>>
     ELSE /\ CanOpen(c)
          /\ OpenDb(c)
          /\ handed' = Handed("getDatabaseForCompany", c, "OK", DbFor(c))
  /\ UNCHANGED <<gridFSCache, store, revealed, client, drops>>

\* getGridFSBucket(companyId) with the default bucket name
GetBucket(c) ==
  /\ IF ~Connected
     THEN /\ handed' = Handed("getGridFSBucket", c, "NotConnected", NoHandle)
          /\ UNCHANGED <<dbCache, gridFSCache, handleSeq, indexRuns>>
     ELSE /\ CanOpenBucket(c, ImagesBucket)
          /\ GetGridFSBucket(c, ImagesBucket)
          /\ handed' = Handed("getGridFSBucket", c, "OK", BucketFor(c, ImagesBucket))
  /\ UNCHANGED <<store, revealed, client, drops>>

\* key.startsWith(prefix)
StartsWith(key, prefix) ==
  Len(key) >= Len(prefix) /\ SubSeq(key, 1, Len(prefix)) = prefix

\* dropCompanyDatabase up to the end of await db.dropDatabase(): the database
\* is dropped, or the drop fails and the error is thrown.
DropCompanyDatabase(c) ==
  /\ c \notin drops
  /\ IF ~Connected
     THEN /\ handed' = Handed("dropCompanyDatabase", c, "NotConnected", NoHandle)
          /\ UNCHANGED <<store, drops>>
     ELSE \/ /\ store' = {x \in store : x.db # DbName(c)}
             /\ drops' = drops \cup {c}
             /\ UNCHANGED handed
          \/ /\ handed' = Handed("dropCompanyDatabase", c, "DropError", NoHandle)
             /\ UNCHANGED <<store, drops>>
  /\ UNCHANGED <<dbCache, gridFSCache, revealed, client, handleSeq, indexRuns>>

\* A drop that leaves the company's buckets in the cache.
BucketsKept(c) == gridFSCache

\* The bucket cache once a drop went through it: keys of the company removed.
BucketsAfterDrop(c) ==
  [k \in {key \in DOMAIN gridFSCache : ~StartsWith(key, c \o <<"_">>)} |->
     gridFSCache[k]]

\* dropCompanyDatabase after the await: both caches are cleared of the
\* company and true is returned.
DropReturn(c) ==
  /\ c \in drops
  /\ dbCache' = Drop(dbCache, DbName(c))
  /\ gridFSCache' = BucketsAfterDrop(c)
  /\ drops' = drops \ {c}
  /\ handed' = Handed("dropCompanyDatabase", c, "OK", NoHandle)
  /\ UNCHANGED <<store, revealed, client, handleSeq, indexRuns>>

\* closeDatabase: client.close(); client = null; dbCache.clear()
CloseDatabase ==
  /\ Connected
  /\ client' = [client EXCEPT !.open = FALSE]
  /\ dbCache' = [n \in {} |-> NoHandle]
  /\ handed' = Handed("closeDatabase", <<>>, "OK", NoHandle)
  /\ UNCHANGED <<gridFSCache, store, revealed, handleSeq, indexRuns, drops>>

\* connectDatabase with no client: a new MongoClient is made and connected.
ConnectDatabase ==
  /\ ~Connected
  /\ client.gen < MaxClients
  /\ client' = [gen |-> client.gen + 1, open |-> TRUE]
  /\ handed' = Handed("connectDatabase", <<>>, "OK", NoHandle)
  /\ UNCHANGED <<dbCache, gridFSCache, store, revealed, handleSeq, indexRuns, drops>>

-----------------------------------------------------------------------------
(* Payment logs of a sale (SaleRepository).  Each call reads the sale with *)
(* findById and then writes it with one findOneAndUpdate; the two awaits   *)
(* are two steps, and the calls of concurrent callers interleave.          *)

\* The call of p ends with result r.
SaleReturn(r) == [NoSaleCall EXCEPT !.res = r]

\* sale.logs.find((l) => l.id === logId): the positions of the logs with the id
LogsWithId(sale, logId) == {i \in DOMAIN sale.logs : sale.logs[i].id = logId}

\* addPaymentLog up to the end of findById: the new total and status are
\* computed from the sale as it was read.
AddPaymentLog(p) ==
  /\ saleCalls[p].pc = "idle"
  /\ logSeq < MaxLogs
  /\ logSeq' = logSeq + 1
  /\ \E s \in SaleParams, a \in Amounts :
       IF s \in DOMAIN sales
       THEN LET newTotalPaid == sales[s].totalPaidAmount + a
            IN  saleCalls' = [saleCalls EXCEPT ![p] =
                  [pc |-> "add_update", saleId |-> s,
                   log |-> [id |-> logSeq + 1, amount |-> a],
                   totalPaid |-> newTotalPaid,
                   status |-> SaleStatusOf(newTotalPaid, sales[s].totalAmount),
                   res |-> "none"]]
       ELSE saleCalls' = [saleCalls EXCEPT ![p] = SaleReturn("null")]
  /\ UNCHANGED sales

\* The $set of both payment-log writes: the total and the status computed
\* before the write replace the stored ones.
SetPaid(sale, call) ==
  [sale EXCEPT !.totalPaidAmount = Round100(call.totalPaid),
               !.status = call.status]

\* addPaymentLog's findOneAndUpdate: $push of the log and $set of the total
\* and the status.
AddPaymentLogUpdate(p) ==
  LET call == saleCalls[p]
  IN  /\ call.pc = "add_update"
      /\ sales' = [sales EXCEPT ![call.saleId] =
                     SetPaid([@ EXCEPT !.logs = Append(@, call.log)], call)]
      /\ saleCalls' = [saleCalls EXCEPT ![p] = SaleReturn("ok")]
      /\ UNCHANGED logSeq

\* deletePaymentLog up to the end of findById: null when the sale or the log
\* is not found, otherwise the new total and status are computed from the
\* sale as it was read.
DeletePaymentLog(p) ==
  /\ saleCalls[p].pc = "idle"
  /\ \E s \in SaleParams, logId \in 1..MaxLogs :
       IF s \in DOMAIN sales /\ LogsWithId(sales[s], logId) # {}
       THEN LET log == sales[s].logs[CHOOSE i \in LogsWithId(sales[s], logId) :
                                      \A j \in LogsWithId(sales[s], logId) : i <= j]
                newTotalPaid == sales[s].totalPaidAmount - log.amount
            IN  saleCalls' = [saleCalls EXCEPT ![p] =
                  [pc |-> "del_update", saleId |-> s, log |-> log,
                   totalPaid |-> newTotalPaid,
                   status |-> SaleStatusOf(newTotalPaid, sales[s].totalAmount),
                   res |-> "none"]]
       ELSE saleCalls' = [saleCalls EXCEPT ![p] = SaleReturn("null")]
  /\ UNCHANGED <<sales, logSeq>>

\* $pull: { logs: { id: logId } }
PullLog(logs, logId) == SelectSeq(logs, LAMBDA l : l.id # logId)

\* deletePaymentLog's findOneAndUpdate: $pull of the log and $set of the
\* total and the status.
DeletePaymentLogUpdate(p) ==
  LET call == saleCalls[p]
  IN  /\ call.pc = "del_update"
      /\ sales' = [sales EXCEPT ![call.saleId] =
                     SetPaid([@ EXCEPT !.logs = PullLog(@, call.log.id)], call)]
      /\ saleCalls' = [saleCalls EXCEPT ![p] = SaleReturn("ok")]
      /\ UNCHANGED logSeq

-----------------------------------------------------------------------------
(* Answering an invite (CompanyService.respondToInvite).  Every repository *)
(* call is one step.                                                       *)

\* The call of p ends with result r.
InviteReturn(p, r) ==
  inviteCalls' = [inviteCalls EXCEPT ![p] = [NoInviteCall EXCEPT !.res = r]]

\* The call of p goes on at pc.
InviteGoto(p, pc) ==
  inviteCalls' = [inviteCalls EXCEPT ![p] = [@ EXCEPT !.pc = pc]]

\* The repository call that follows the checks of the invite: rejecting
\* writes the status at once, accepting reads the user first.
AfterChecks(accept) == IF accept THEN "ri_user" ELSE "ri_reject"

\* respondToInvite up to the end of inviteRepo.findById, with the checks of
\* the invite that was read.
RespondToInvite(p) ==
  /\ inviteCalls[p].pc = "idle"
  /\ \E u \in Invitees, i \in InviteParams, accept \in BOOLEAN :
       IF i \notin DOMAIN invites
       THEN InviteReturn(p, "Invite not found")
       ELSE IF invites[i].status # "pending"
       THEN InviteReturn(p, "Invite no longer pending")
       ELSE IF invites[i].invitedUserId # 0 /\ invites[i].invitedUserId # u
       THEN InviteReturn(p, "Invite does not belong to you")
       ELSE inviteCalls' = [inviteCalls EXCEPT ![p] =
              [pc |-> IF invites[i].invitedUserId = 0
                      THEN "ri_phone" ELSE AfterChecks(accept),
               userId |-> u, inviteId |-> i, accept |-> accept,
               companyId |-> invites[i].companyId,
               phone |-> invites[i].invitedPhoneNumber, res |-> "none"]]
  /\ UNCHANGED <<companies, users, invites>>

\* The invite names no user: userRepo.findById and the phone comparison.
RespondPhone(p) ==
  LET call == inviteCalls[p]
  IN  /\ call.pc = "ri_phone"
      /\ IF call.userId \notin DOMAIN users
         THEN InviteReturn(p, "User not found")
         ELSE IF users[call.userId].phoneNumber # call.phone
         THEN InviteReturn(p, "Invite phone number mismatch")
         ELSE InviteGoto(p, AfterChecks(call.accept))
      /\ UNCHANGED <<companies, users, invites>>

\* updateStatus: updateOne({ _id: id }, { $set: { status } })
UpdateStatus(id, status) ==
  [i \in DOMAIN invites |->
     IF i = id THEN [invites[i] EXCEPT !.status = status] ELSE invites[i]]

\* Not accepted: updateStatus(inviteId, "rejected")
RespondReject(p) ==
  LET call == inviteCalls[p]
  IN  /\ call.pc = "ri_reject"
      /\ invites' = UpdateStatus(call.inviteId, "rejected")
      /\ InviteReturn(p, "OK")
      /\ UNCHANGED <<companies, users>>

\* Accepted: userRepo.findById and the check that the user has no company.
RespondUser(p) ==
  LET call == inviteCalls[p]
  IN  /\ call.pc = "ri_user"
      /\ IF call.userId \in DOMAIN users
            /\ users[call.userId].companyId # NoCompany
         THEN InviteReturn(p, "You are already in a company")
         ELSE InviteGoto(p, "ri_status")
      /\ UNCHANGED <<companies, users, invites>>

\* updateStatus(inviteId, "accepted")
RespondStatus(p) ==
  LET call == inviteCalls[p]
  IN  /\ call.pc = "ri_status"
      /\ invites' = UpdateStatus(call.inviteId, "accepted")
      /\ InviteGoto(p, "ri_add")
      /\ UNCHANGED <<companies, users>>

\* addUser: updateOne({ _id: new ObjectId(companyId) },
\*                    { $addToSet: { userIds: userId } })
AddUser(companyId, userId) ==
  [c \in DOMAIN companies |->
     IF companies[c]._id = ObjectIdFromHex(companyId)
     THEN [companies[c] EXCEPT !.userIds = @ \cup {userId}]
     ELSE companies[c]]

\* companyRepo.addUser(invite.companyId, userId)
RespondAddUser(p) ==
  LET call == inviteCalls[p]
  IN  /\ call.pc = "ri_add"
      /\ companies' = AddUser(call.companyId, call.userId)
      /\ InviteGoto(p, "ri_update")
      /\ UNCHANGED <<users, invites>>

\* userRepo.update(userId, { companyId: invite.companyId, role: "user" })
RespondUpdateUser(p) ==
  LET call == inviteCalls[p]
  IN  /\ call.pc = "ri_update"
      /\ users' = [u \in DOMAIN users |->
                     IF u = call.userId
                     THEN [users[u] EXCEPT !.companyId = call.companyId]
                     ELSE users[u]]
      /\ InviteReturn(p, "OK")
      /\ UNCHANGED <<companies, invites>>

-----------------------------------------------------------------------------
(* Specifications.  No fairness is assumed: a request may stop for good     *)
(* after any of its steps, which is what a crash of the server process in  *)
(* the middle of the request does to it.                                   *)

\* Direct uploads, reads and deletes (none of them touches the labels
\* collection).
NextImage ==
  /\ UNCHANGED <<labels, tenantVars, now, saleVars, memberVars>>
  /\ \E p \in Procs :
       \/ UploadImage(p)
       \/ CreateTxn(p)
       \/ CreateCleanup(p)
       \/ UploadMultipleImages(p)
       \/ BatchUpload(p)
       \/ BatchTxn(p)
       \/ BatchCleanup(p)
       \/ GetImageData(p)
       \/ GetDownload(p)
       \/ DeleteImage(p)
       \/ DeleteFind(p)
       \/ DeleteTxn(p)
       \/ DeleteObject(p)

SpecImage == Init /\ [][NextImage]_vars

\* Resumable uploads (none of them touches the labels collection).
NextUpload ==
  /\ UNCHANGED <<labels, tenantVars, now, saleVars, memberVars>>
  /\ \E p \in Procs :
       \/ InitUpload(p)
       \/ UploadChunk(p)
       \/ SaveChunkUpsert(p)
       \/ SaveChunkInsert(p)
       \/ SaveChunkAddToSet(p)
       \/ FinalizeUpload(p)
       \/ FinalizeGetChunks(p)
       \/ FinalizeCreate(p)
       \/ CreateTxn(p)
       \/ CreateCleanup(p)
       \/ FinalizeDeleteSession(p)
       \/ FinalizeDeleteChunks(p)

SpecUpload == Init /\ [][NextUpload]_vars

\* Labels, and images tagged with them.
NextLabel ==
  /\ UNCHANGED <<tenantVars, now, saleVars, memberVars>>
  /\ \E p \in Procs :
       \/ CreateLabel(p)
       \/ UploadLabelledImage(p)
       \/ CreateTxn(p) /\ UNCHANGED labels
       \/ CreateCleanup(p) /\ UNCHANGED labels
       \/ UpdateImage(p)
       \/ UpdateSet(p)
       \/ DeleteLabel(p)
       \/ DeleteLabelTxn(p)

SpecLabel == Init /\ [][NextLabel]_vars

\* Operations of several companies on the partitions.
NextTenant ==
  /\ UNCHANGED <<customers, images, fsFiles, fsChunks, sessions, chunks,
                 procs, last, ids, faults, origin, submitted, labels, now,
                 saleVars, memberVars>>
  /\ \E c \in CompanyIds :
       \/ \E coll \in Collections : CompanyInsert(c, coll)
       \/ \E coll \in Collections : CompanyFind(c, coll)
       \/ \E coll \in Collections : CompanyDelete(c, coll)
       \/ CompanyUpload(c)
       \/ CompanyDownload(c)
       \/ CompanyDeleteObject(c)
       \/ ConnectDatabase

SpecTenant == Init /\ [][NextTenant]_vars

\* Chunk submissions as they come in through the route.
NextChunk ==
  /\ UNCHANGED <<labels, tenantVars, now, saleVars, memberVars>>
  /\ \E p \in Procs :
       \/ InitUpload(p)
       \/ UploadChunkRoute(p)
       \/ SaveChunkUpsert(p)
       \/ SaveChunkInsert(p)
       \/ SaveChunkAddToSet(p)

SpecChunk == Init /\ [][NextChunk]_vars

\* Time passes: the clock moves on by two days, past the expiresAt of every
\* session created before.
ClockAdvance ==
  /\ now <= DayMs
  /\ now' = now + 2 * DayMs
  /\ UNCHANGED <<customers, images, fsFiles, fsChunks, sessions, chunks,
                 procs, last, ids, faults, origin, submitted, labels, tenantVars,
                 saleVars, memberVars>>

\* Resumable uploads while time passes.
NextExpiry ==
  \/ NextUpload
  \/ ClockAdvance

\* A step of the request that p is serving.
RequestStep(p) ==
  /\ procs[p].pc # "idle"
  /\ NextUpload
  /\ procs'[p] # procs[p]

\* Every request that was started runs to its end, and time passes; no client
\* is obliged to send a further request.
SpecExpiry ==
  /\ Init
  /\ [][NextExpiry]_vars
  /\ \A p \in Procs : WF_vars(RequestStep(p))
  /\ WF_vars(ClockAdvance)

\* The connection's life and the handle caches.
NextHandles ==
  /\ UNCHANGED <<customers, images, fsFiles, fsChunks, sessions, chunks,
                 procs, last, ids, faults, origin, submitted, labels, now,
                 saleVars, memberVars>>
  /\ \/ \E c \in CompanyIds :
          \/ GetDatabaseForCompany(c)
          \/ GetBucket(c)
          \/ CompanyUpload(c)
          \/ DropCompanyDatabase(c)
          \/ DropReturn(c)
     \/ CloseDatabase
     \/ ConnectDatabase

SpecHandles == Init /\ [][NextHandles]_vars

\* Customers with images, and their hard delete.
NextCustomer ==
  /\ UNCHANGED <<labels, tenantVars, now, saleVars, memberVars>>
  /\ \E p \in Procs :
       \/ UploadImage(p)
       \/ CreateTxn(p)
       \/ CreateCleanup(p)
       \/ GetImageData(p)
       \/ GetDownload(p)
       \/ DeleteCustomer(p)
       \/ DeleteCustomerFind(p)
       \/ DeleteCustomerObject(p)
       \/ DeleteCustomerCommit(p)

SpecCustomer == Init /\ [][NextCustomer]_vars

\* Payment logs of the sales.
NextSale ==
  /\ UNCHANGED <<customers, images, fsFiles, fsChunks, sessions, chunks,
                 procs, last, ids, faults, origin, submitted, labels, now,
                 tenantVars, memberVars>>
  /\ \E p \in Procs :
       \/ AddPaymentLog(p)
       \/ AddPaymentLogUpdate(p)
       \/ DeletePaymentLog(p)
       \/ DeletePaymentLogUpdate(p)

SpecSale == Init /\ [][NextSale]_vars

\* Answers to invites.
NextInvite ==
  /\ UNCHANGED <<customers, images, fsFiles, fsChunks, sessions, chunks,
                 procs, last, ids, faults, origin, submitted, labels, now,
                 tenantVars, saleVars>>
  /\ \E p \in Procs :
       \/ RespondToInvite(p)
       \/ RespondPhone(p)
       \/ RespondReject(p)
       \/ RespondUser(p)
       \/ RespondStatus(p)
       \/ RespondAddUser(p)
       \/ RespondUpdateUser(p)

SpecInvite == Init /\ [][NextInvite]_vars

Next == NextImage \/ NextUpload

Spec == Init /\ [][Next]_vars

-----------------------------------------------------------------------------
(* Properties.                                                             *)

\* The records whose object the bucket does not hold completely.
Dangling == {i \in images : ~(/\ i.fileId \in fsFiles
                              /\ Len(DownloadFromGridFS(i.fileId)) = i.size)}

\* The objects no record names.
Unreferenced == {f \in fsFiles : \A i \in images : i.fileId # f}

\* C1 as stated: a customer_images record exists if and only if the GridFS
\* object its fileId names exists and is fully written: no record without its
\* object and no fully written object without its record.
C1_RecordIffObject == Dangling = {} /\ Unreferenced = {}

\* C1, the direction that holds: over uploadImage, uploadMultipleImages,
\* finalizeUpload and deleteImage with failures at any step, every record's
\* fileId names an object that exists and holds exactly size bytes.  (An object
\* may exist without a record.)
C1_RecordHasObject == Dangling = {}

\* All requests are over; one record has its object, and next to it lies an
\* object that no record names.
C1_RecordAndOrphan ==
  /\ \A p \in Procs : procs[p].pc = "idle"
  /\ \E i \in images : i.fileId \in fsFiles
  /\ Unreferenced # {}
  /\ last.cleanupFailed

\* The number of records of a customer.
CountRecords(c) == Cardinality({i \in images : ObjectIdFromHex(i.customerId) = c})

\* C2: every customer's imageCount equals the number of customer_images
\* records whose customerId is that customer.
C2_CountMatchesRecords ==
  \A c \in DOMAIN customers : customers[c] = CountRecords(c)

\* C3: when the metadata transaction of a create fails after the object was
\* written, the failing step adds no record and leaves every imageCount as it
\* was; the request then ends with the transaction's error, with no record for
\* the upload, and with the object deleted, or still there when exactly the
\* cleanup failed.
C3_FailedCreate ==
  [][\A p \in Procs :
       /\ (procs[p].pc = "c_txn" /\ procs'[p].pc = "c_cleanup") =>
            /\ images' = images
            /\ customers' = customers
            /\ procs'[p].fileIds[1] \in fsFiles'
       /\ (procs[p].pc = "c_cleanup" /\ procs'[p].pc = "idle") =>
            /\ last'.res = "TxnError"
            /\ images' = images
            /\ customers' = customers
            /\ \A i \in images' : i.fileId # procs[p].fileIds[1]
            /\ (procs[p].fileIds[1] \in fsFiles') <=> last'.cleanupFailed]_vars

\* A create ended with the transaction's error after its cleanup failed too:
\* no record, the object still in the bucket.
C3_OrphanAfterFailedCleanup ==
  /\ last.op = "uploadImage"
  /\ last.txFailed /\ last.cleanupFailed
  /\ last.res = "TxnError"
  /\ last.fileIds[1] \in Unreferenced

\* C4: in deleteImage the metadata transaction commits before the object is
\* deleted: a delete reaches the object's deletion only with the record gone,
\* and wherever a delete stands (where a crash would stop it) or ended (with
\* an error or not), the record it is about, if still there, names an object
\* that exists.
C4_MetadataBeforeObject ==
  /\ \A p \in Procs :
       /\ procs[p].pc = "d_gridfs" => FindImage(procs[p].imageId) = {}
       /\ procs[p].op = "deleteImage" =>
            \A i \in FindImage(procs[p].imageId) : i.fileId \in fsFiles
  /\ last.op = "deleteImage" =>
       \A i \in FindImage(last.imageId) : i.fileId \in fsFiles

\* A delete ended with an error after its transaction committed: the record
\* is gone and the object is left unreferenced.
C4_StoppedAfterCommit ==
  /\ last.op = "deleteImage"
  /\ last.res = "GridFSError"
  /\ FindImage(last.imageId) = {}
  /\ last.image.fileId \in Unreferenced

\* The assets ever created by finalizing the upload session n.
FinalizedFrom(n) ==
  {i \in DOMAIN origin : origin[i].op = "finalizeUpload" /\ origin[i].uploadId = Hex(n)}

\* C5: a session is finalized at most once: over any interleaving of
\* finalizeUpload calls on it, at most one asset is created from it.
C5_FinalizedAtMostOnce ==
  \A n \in 1..MaxSessions : Cardinality(FinalizedFrom(n)) <= 1

\* C6: at most one chunk is stored per (session, index), its payload is that of
\* the most recent submission for the index, and uploadedChunks never has more
\* elements than distinct indices were submitted.
C6_OneChunkPerIndex ==
  /\ \A d \in chunks : Matching(d.uploadId, d.index) = {d}
  /\ \A d \in chunks : d.data = submitted[<<d.uploadId, d.index>>]
  /\ \A s \in sessions :
       Cardinality(s.uploadedChunks) <= Cardinality(SubmittedIndices(s._id))

C8_FinalizeInIndexOrder ==
  \A i \in images :
    (origin[i._id].op = "finalizeUpload" /\ origin[i._id].complete) =>
      /\ i.size = origin[i._id].totalSize
      /\ i.fileId \in fsFiles => DownloadFromGridFS(i.fileId) = origin[i._id].expected

\* C9: an asset finalized from chunks with a missing index never has the
\* declared totalSize as its size.
C9_GapNeverTotalSize ==
  \A i \in images :
    (origin[i._id].op = "finalizeUpload" /\ origin[i._id].gap) =>
      i.size # origin[i._id].totalSize

\* C10: the deleteImage whose transaction commits decrements the imageCount of
\* the image's customer by exactly one; a deleteImage that ends with NotFound
\* changes no counter, record or object.
C10_DeleteTwice ==
  [][\A p \in Procs :
       /\ (procs[p].pc = "d_txn" /\ procs'[p].pc = "d_gridfs") =>
            \A c \in DOMAIN customers :
              customers'[c] = IF c = ObjectIdFromHex(procs[p].customerId)
                              THEN customers[c] - 1 ELSE customers[c]
       /\ (procs' = procs /\ ids'.call # ids.call
             /\ last'.op = "deleteImage" /\ last'.res = "IMAGE_NOT_FOUND") =>
            UNCHANGED <<customers, images, fsFiles, fsChunks>>]_vars

\* A step in which a request starts and ends at once, as operation op.
Immediate(op) == procs' = procs /\ ids'.call # ids.call /\ last'.op = op

\* The owners other than c of the image a request names by id.
OtherOwners(id, c) == {i.customerId : i \in FindImage(id)} \ {c}

\* C11: a deleteImage whose customerId differs from the image's customerId
\* fails with Forbidden, never getting as far as the repository, and leaves
\* every record, object and imageCount unchanged.
C11_ForeignDeleteForbidden ==
  [][/\ \A p \in Procs :
          (procs[p].pc = "idle" /\ procs'[p].pc = "d_find") =>
            OtherOwners(procs'[p].imageId, procs'[p].customerId) = {}
     /\ (Immediate("deleteImage")
           /\ OtherOwners(last'.imageId, last'.customerId) # {}) =>
          /\ last'.res = "FORBIDDEN"
          /\ UNCHANGED <<customers, images, fsFiles, fsChunks>>]_vars

\* A deleteImage under another customer's id was refused; the image and its
\* object are still there.
C11_Refused ==
  /\ last.op = "deleteImage" /\ last.res = "FORBIDDEN"
  /\ \E i \in FindImage(last.imageId) :
       i.customerId # last.customerId /\ i.fileId \in fsFiles

C13_SessionGoneAfterFinalize ==
  [][/\ \A p \in Procs :
          (procs[p].op = "finalizeUpload" /\ procs'[p].pc = "idle"
             /\ last'.res = "OK") =>
            /\ \A s \in sessions' : s._id # ObjectIdFromHex(procs[p].uploadId)
            /\ \A d \in chunks' : d.uploadId # ObjectIdFromHex(procs[p].uploadId)
     /\ \A s \in sessions' :
          s._id \notin {x._id : x \in sessions} =>
            s._id = Oid(ids'.session) /\ ids'.session > ids.session
     /\ \A op \in {"uploadChunk", "finalizeUpload"} :
          /\ (Immediate(op) /\ FindSession(last'.uploadId) = {}) =>
               last'.res = "SESSION_NOT_FOUND"
          /\ \A p \in Procs :
               (procs[p].pc = "idle" /\ procs'[p].op = op) =>
                 FindSession(procs'[p].uploadId) # {}]_vars

\* A second finalizeUpload, made after the first one had returned, was
\* refused: the asset of the first exists, the session and its chunks do not.
C13_SecondFinalizeRefused ==
  /\ last.op = "finalizeUpload" /\ last.res = "SESSION_NOT_FOUND"
  /\ FindSession(last.uploadId) = {}
  /\ ChunksOf(ObjectIdFromHex(last.uploadId)) = {}
  /\ \E i \in images :
       origin[i._id].op = "finalizeUpload" /\ origin[i._id].uploadId = last.uploadId

\* C14: no customer_images record carries a label id that is not the id of a
\* label in the labels collection (in particular not the id of a label that
\* deleteLabel removed).
C14_NoDanglingLabel ==
  \A i \in images : \A l \in i.labels : ObjectIdFromHex(l) \in labels


\* The partition derived from a company id: what lies in database fi_<id>.
PartitionOf(c) == {x \in store : x.db = DbName(c)}

\* A step of an operation invoked with company id c.
UnderCompany(c) ==
  \/ \E coll \in Collections :
       CompanyInsert(c, coll) \/ CompanyFind(c, coll) \/ CompanyDelete(c, coll)
  \/ CompanyUpload(c) \/ CompanyDownload(c) \/ CompanyDeleteObject(c)

\* C15: an operation invoked with company id A writes only into fi_A and
\* reveals only what A wrote into fi_A, and a step under A leaves the
\* partition of every other company as it was.
C15_TenantIsolation ==
  [][/\ \A x \in store' : x.db = DbName(x.owner)
     /\ \A x \in revealed'.items :
          x.owner = revealed'.company /\ x.db = DbName(revealed'.company)
     /\ \A c \in CompanyIds : UnderCompany(c) =>
          \A b \in CompanyIds \ {c} :
            {x \in store' : x.db = DbName(b)} = PartitionOf(b)]_vars

\* C15 witness: both companies hold records and an object, both handles of
\* both companies are cached, and a read under one company has returned
\* that company's object.
C15_BothTenantsActive ==
  /\ \A c \in CompanyIds :
       /\ \E x \in PartitionOf(c) : x.coll = "images.files"
       /\ \E x \in PartitionOf(c) : x.coll \in Collections
       /\ DbName(c) \in DOMAIN dbCache
       /\ BucketCacheKey(c, ImagesBucket) \in DOMAIN gridFSCache
  /\ \E x \in revealed.items : x.coll = "images.files"

\* C16: an init with a non-positive totalSize is rejected and creates no
\* session; a session that an init creates has a positive totalSize, status
\* pending, no uploaded chunk index, and expiresAt exactly 24 hours after
\* createdAt.
C16_InitContract ==
  [][/\ \A s \in sessions' : s._id \notin {x._id : x \in sessions} =>
          /\ s.totalSize > 0
          /\ s.status = "pending"
          /\ s.uploadedChunks = {}
          /\ s.expiresAt = s.createdAt + DayMs
     /\ (Immediate("initUpload") /\ last'.res # "OK") => sessions' = sessions]_vars

C18_ChunkHasSession ==
  faults = 0 =>
    \A d \in chunks :
      \/ \E s \in sessions : s._id = d.uploadId /\ s.status = "pending"
      \/ \E p \in Procs : /\ procs[p].pc = "f_delete_chunks"
                          /\ ObjectIdFromHex(procs[p].uploadId) = d.uploadId

\* C19: uploadMultipleImages stands at its transaction only with the object of
\* every item written; the commit inserts one record per item and raises the
\* customer's imageCount by the batch size; a failed transaction inserts
\* nothing and leaves every imageCount as it was, and a batch that ends after a
\* failed write or a failed transaction ends with an error, no record of the
\* batch, every imageCount as before, and none of its written objects left.
C19_BatchAllOrNothing ==
  [][\A p \in Procs :
       /\ procs'[p].pc = "m_txn" =>
            /\ Len(procs'[p].fileIds) = Len(procs'[p].batch)
            /\ \A k \in 1..Len(procs'[p].fileIds) : procs'[p].fileIds[k] \in fsFiles'
       /\ (procs[p].pc = "m_txn" /\ procs'[p].pc = "idle") =>
            /\ last'.res = "OK"
            /\ images' = images \cup NewImages(procs[p], ids.image)
            /\ \A c \in DOMAIN customers :
                 customers'[c] = customers[c] +
                   (IF c = ObjectIdFromHex(procs[p].customerId)
                    THEN Len(procs[p].batch) ELSE 0)
       /\ (procs[p].pc = "m_txn" /\ procs'[p].pc = "m_cleanup") =>
            /\ images' = images
            /\ customers' = customers
       /\ (procs[p].pc = "m_cleanup" /\ procs'[p].pc = "idle") =>
            /\ last'.res # "OK"
            /\ images' = images
            /\ customers' = customers
            /\ \A i \in images' : \A k \in 1..Len(procs[p].fileIds) :
                 i.fileId # procs[p].fileIds[k]
            /\ \A k \in 1..Len(procs[p].fileIds) : procs[p].fileIds[k] \notin fsFiles']_vars

\* C20: when the metadata transaction of a finalize's create step has failed,
\* the finalize ends with its session and all chunks of the session discarded.
C20_CleanupAfterFailedCreate ==
  [][\A p \in Procs :
       (/\ procs[p].op = "finalizeUpload"
        /\ procs[p].pc = "c_cleanup"
        /\ procs'[p].pc = "idle") =>
         /\ \A s \in sessions' : s._id # ObjectIdFromHex(procs[p].uploadId)
         /\ \A d \in chunks' : d.uploadId # ObjectIdFromHex(procs[p].uploadId)]_vars

\* C21: a session keeps the totalSize it was created with, and every index in
\* its uploadedChunks and every index of a stored chunk of it is at least 0 and
\* below ceil(totalSize/chunkSize), which for every chunk size of one byte or
\* more is at most totalSize.
C21_IndicesInRange ==
  [][/\ \A s \in sessions : \A t \in sessions' :
          s._id = t._id => s.totalSize = t.totalSize
     /\ \A t \in sessions' :
          /\ \A i \in t.uploadedChunks : 0 <= i /\ i < t.totalSize
          /\ \A d \in chunks' : d.uploadId = t._id => 0 <= d.index /\ d.index < t.totalSize]_vars

\* C22: a session whose expiresAt has passed is eventually gone, and its
\* chunks with it.
C22_ExpiredSessionDiscarded ==
  \A n \in 1..MaxSessions :
    (\E s \in sessions : s._id = Oid(n) /\ s.expiresAt < now)
      ~> (/\ \A s \in sessions : s._id # Oid(n)
          /\ \A d \in chunks : d.uploadId # Oid(n))

\* The customer a customerId parameter names exists.
CustomerExists(customerId) == ObjectIdFromHex(customerId) \in DOMAIN customers

\* C23: uploadImage, uploadMultipleImages, initUpload and finalizeUpload for a
\* customer id that names no customer end with a not-found error, and no image
\* record, no session and no written object belongs to such a customer id.
C23_UnknownCustomerRefused ==
  /\ \A i \in images : CustomerExists(i.customerId)
  /\ \A s \in sessions : CustomerExists(s.customerId)
  /\ \A p \in Procs :
       (/\ procs[p].op \in {"uploadImage", "uploadMultipleImages", "finalizeUpload"}
        /\ procs[p].fileIds # <<>>) => CustomerExists(procs[p].customerId)
  /\ (/\ last.op \in {"uploadImage", "uploadMultipleImages", "initUpload",
                      "finalizeUpload"}
      /\ last.customerId # Hex(0)
      /\ ~CustomerExists(last.customerId)) => last.res = "NOT_FOUND"

\* The bucket cache keys of a company.
BucketKeys(cache, c) == {k \in DOMAIN cache : StartsWith(k, c \o <<"_">>)}

\* C24: when dropCompanyDatabase(c) returns true, neither cache holds a
\* handle of c and the entries of every other company are as before; a drop
\* that fails raises its error with both caches as they were; and a
\* getDatabaseForCompany that finds no cached Db hands out a Db that was never
\* handed out before and schedules index creation for it.
C24_DropClearsCaches ==
  [][/\ \A c \in CompanyIds : (c \in drops /\ c \notin drops') =>
          /\ handed' = Handed("dropCompanyDatabase", c, "OK", NoHandle)
          /\ DbName(c) \notin DOMAIN dbCache'
          /\ BucketKeys(gridFSCache', c) = {}
          /\ \A b \in CompanyIds \ {c} :
               /\ DbName(b) \in DOMAIN dbCache' <=> DbName(b) \in DOMAIN dbCache
               /\ DbName(b) \in DOMAIN dbCache => dbCache'[DbName(b)] = dbCache[DbName(b)]
               /\ BucketKeys(gridFSCache', b) = BucketKeys(gridFSCache, b)
               /\ \A k \in BucketKeys(gridFSCache, b) : gridFSCache'[k] = gridFSCache[k]
     /\ (handed' # handed /\ handed'.res = "DropError") =>
          /\ dbCache' = dbCache
          /\ gridFSCache' = gridFSCache
          /\ drops' = drops
     /\ (/\ handed' # handed
         /\ handed'.op = "getDatabaseForCompany"
         /\ handed'.res = "OK"
         /\ DbName(handed'.company) \notin DOMAIN dbCache) =>
          /\ handed'.handle.id > handleSeq
          /\ handed'.handle.name = DbName(handed'.company)
          /\ handed'.handle \notin indexRuns
          /\ handed'.handle \in indexRuns'
          /\ dbCache'[DbName(handed'.company)] = handed'.handle]_vars

\* C24 witness: after a drop of a company whose Db and bucket were cached, the
\* company got a second Db from the same client, while the other company's
\* Db and bucket are still the cached ones.
C24_FreshAfterDrop ==
  /\ handed.op = "getDatabaseForCompany"
  /\ handed.res = "OK"
  /\ \E h \in indexRuns : /\ h.name = handed.handle.name
                          /\ h.client = handed.handle.client
                          /\ h.id < handed.handle.id
  /\ BucketKeys(gridFSCache, handed.company) = {}
  /\ \E b \in CompanyIds \ {handed.company} :
       /\ DbName(b) \in DOMAIN dbCache
       /\ BucketKeys(gridFSCache, b) # {}

\* C30: every Db and every bucket that getDatabaseForCompany and
\* getGridFSBucket hand out is bound to the client that is connected at the
\* time of the call, also after closeDatabase and a new connectDatabase.
C30_HandlesOfCurrentClient ==
  [][(/\ handed' # handed
      /\ handed'.op \in {"getDatabaseForCompany", "getGridFSBucket"}
      /\ handed'.res = "OK") =>
        /\ client.open
        /\ handed'.handle.client = client.gen]_vars

\* C25: of the deleteImage calls for one image at most one gets its
\* transaction committed, the commit lowers the imageCount of the image's
\* customer by exactly one and removes the record, and a deleteImage that
\* ends with a not-found error changes no counter, record or object.
C25_ConcurrentDeleteOnce ==
  [][/\ \A p \in Procs : (procs[p].pc = "d_txn" /\ procs'[p].pc = "d_gridfs") =>
          /\ FindImage(procs[p].imageId) # {}
          /\ \A i \in images' : i._id # ObjectIdFromHex(procs[p].imageId)
          /\ \A q \in Procs \ {p} :
               ~(procs[q].pc = "d_gridfs" /\ procs[q].imageId = procs[p].imageId)
          /\ \A c \in DOMAIN customers :
               customers'[c] = customers[c] -
                 (IF c = ObjectIdFromHex(procs[p].customerId) THEN 1 ELSE 0)
     /\ \A p \in Procs :
          (/\ procs[p].op = "deleteImage"
           /\ procs'[p].pc = "idle"
           /\ last'.res \in {"Error: Image not found", "IMAGE_NOT_FOUND"}) =>
            UNCHANGED <<customers, images, fsFiles, fsChunks>>]_vars

\* C26: a finalizeUpload that ends with an error has committed no image
\* record: the session it worked on has no asset created by this call.
C26_FinalizeErrorCommitsNothing ==
  [][\A p \in Procs :
       (/\ procs[p].op = "finalizeUpload"
        /\ procs[p].pc # "idle"
        /\ procs'[p].pc = "idle"
        /\ last'.res # "OK") =>
         /\ last'.image = NoImage
         /\ \A i \in images' : i._id # procs[p].image._id]_vars

\* C27: no step deletes the GridFS object of an image whose record is still
\* stored after the step: during a hard deleteCustomer the objects go only
\* with the commit that removes the records.
C27_ObjectsGoWithCommit ==
  [][\A i \in images' : i.fileId \in fsFiles => i.fileId \in fsFiles']_vars

\* The sum of the amounts of the logs.
RECURSIVE SumAmounts(_)
SumAmounts(logs) ==
  IF logs = <<>> THEN 0 ELSE Head(logs).amount + SumAmounts(Tail(logs))

\* C28: whenever no payment-log call is in progress, the totalPaidAmount of
\* every sale is the sum of the amounts of its stored logs (no added amount is
\* lost), and its status is completed exactly when totalPaidAmount >=
\* totalAmount.
C28_PaidMatchesLogs ==
  (\A p \in Procs : saleCalls[p].pc = "idle")
    => \A s \in DOMAIN sales :
         /\ sales[s].totalPaidAmount = SumAmounts(sales[s].logs)
         /\ sales[s].status = "completed"
              <=> sales[s].totalPaidAmount >= sales[s].totalAmount

\* Every user listed in the userIds of a company has that company as
\* companyId (so no user is listed by two companies).
MembersAgree(cs, us) ==
  \A c \in DOMAIN cs : \A u \in cs[c].userIds \cap DOMAIN us :
    us[u].companyId = cs[c]._id

\* C29: after every step that leaves no respondToInvite call in progress,
\* every user is in the userIds of at most one company, which is the user's
\* companyId; and no step changes the status of an invite that is not
\* pending, so an invite changes status at most once.
C29_OneCompanyOneAnswer ==
  [][/\ (\A p \in Procs : inviteCalls'[p].pc = "idle")
        => MembersAgree(companies', users')
     /\ \A i \in DOMAIN invites :
          invites'[i].status # invites[i].status
            => invites[i].status = "pending"]_vars
====
